---------------------------- MODULE Spec2Model ----------------------------
(***************************************************************************)
(* A model of the flash controller of flashMemoryController.c: the status  *)
(* table kept in RAM (fctrStatusBytes), the Map Sector and the data        *)
(* sectors on the flash medium, and the public operations fctr_firstInit,  *)
(* fctr_pushToFlash and fctr_popFromFlash with every helper they call.     *)
(*                                                                         *)
(* A sector of the medium is abstracted to one byte: a data sector holds   *)
(* one payload byte, the Map Sector holds one status byte per table entry. *)
(* The device programs a byte by clearing bits (bitwise AND with what is   *)
(* stored) and erases a sector to all ones, as NOR flash does.             *)
(***************************************************************************)
EXTENDS Integers, Sequences, FiniteSets, Bags, TLC

VARIABLES
    fctrStatusBytes,  \* the RAM mirror of the status table, index 0 .. N-1
    flashMap,         \* the first N bytes of the Map Sector on the medium
    flashData,        \* the data sectors 1 .. N-1 on the medium
    ready,            \* fctr_firstInit has returned FCTRSTAT_OK since power-on
    last,             \* what the last operation did and returned
    outstanding,      \* bag of payloads accepted by a push and not yet popped
    pushRun,          \* pushes made in a row since the table was all EMPTY
    step,             \* position in the scripted scenario, Off when not on it
    interrupted       \* the operation a power loss cut short, if any

vars == <<fctrStatusBytes, flashMap, flashData, ready, last, outstanding,
          pushRun, step, interrupted>>

(***************************************************************************)
(* Bounds of the model.                                                    *)
(***************************************************************************)
\* table entries of the general model (FCTR_AVAILABLE_SECTORS there): the
\* signature slot and NumSectors - 1 usable sectors
NumSectors == 4
\* payloads offered to a push are 1 .. MaxPayload
MaxPayload == 2

(***************************************************************************)
(* Constants of the program.                                               *)
(***************************************************************************)
SIGNATURE_BYTE == 85
\* mutant: a code for READ that sets a bit which UNREAD has cleared
SectorRead_SetsABit == 92 + 1
FCTR_SECTOR_RESERVED == 255
FCTR_SECTOR_EMPTY == 95
FCTR_SECTOR_UNREAD == 94
FCTR_SECTOR_READ == 92
FCTRSTAT_OK == 0
FCTRSTAT_ERROR == 1
FCTR_SIZE_OF_KILOBYTE == 1024
FCTR_TOTAL_MEMORYSIZE_BYTES == 4194304 * 2
FCTR_SECTOR_SIZE == 4096

\* the compiled length of fctrStatusBytes; every loop of the source runs to it
FCTR_AVAILABLE_SECTORS == Cardinality(DOMAIN fctrStatusBytes)

\* an erased flash byte: all ones
ErasedByte == FCTR_SECTOR_RESERVED
\* the buffer of a pop that read nothing
NoPayload == 0 - 1
\* the scenario monitor when the run has left the script
Off == 0 - 1

Payloads == 1 .. MaxPayload

(***************************************************************************)
(* The device (w25qxx): programming clears bits, erasing sets them.        *)
(***************************************************************************)
RECURSIVE BitAnd(_, _)
BitAnd(a, b) ==
    IF a = 0 \/ b = 0 THEN 0
    ELSE 2 * BitAnd(a \div 2, b \div 2)
         + (IF a % 2 = 1 /\ b % 2 = 1 THEN 1 ELSE 0)

\* W25qxx_WriteSector / W25qxx_WriteByte on one byte: only 1s change to 0s
W25qxx_Program(stored, byte) == BitAnd(stored, byte)

\* W25qxx_IsEmptySector
W25qxx_IsEmptySector(stored) == stored = ErasedByte

(***************************************************************************)
(* Middleware of the source.                                               *)
(***************************************************************************)
\* mutant: the Map Sector is not erased before the table is written
writeSectorStatus_NoErase(sectorStatus) ==
    [i \in DOMAIN sectorStatus |-> W25qxx_Program(flashMap[i], sectorStatus[i])]

\* fctr_writeSectorStatus: erase the Map Sector, then write the whole table
fctr_writeSectorStatus(sectorStatus) ==
    [i \in DOMAIN sectorStatus |-> W25qxx_Program(ErasedByte, sectorStatus[i])]

\* mutant: the reserved offset is left out and an erased sector is read
readSectorStatus_WrongSector(map) == [i \in DOMAIN map |-> ErasedByte]

\* fctr_readSectorStatus: FCTR_AVAILABLE_SECTORS bytes of the Map Sector
fctr_readSectorStatus(map) == [i \in DOMAIN map |-> map[i]]

\* fctr_readSector of a data sector into the caller's buffer
fctr_readSector(data, requestedSector) == data[requestedSector]

\* mutant: the sector is written without being erased first
writeSector_NoErase(map, data, pBuffer, requestedSector) ==
    IF requestedSector = 0
    THEN [map  |-> [i \in DOMAIN map |-> W25qxx_Program(map[i], pBuffer)],
          data |-> data]
    ELSE [map  |-> map,
          data |-> [data EXCEPT ![requestedSector] =
                      W25qxx_Program(@, pBuffer)]]

\* fctr_writeSector: write if the sector is erased, else erase and write.
\* Sector 0 is the Map Sector itself: a payload written there replaces the
\* table on the medium.
fctr_writeSector(map, data, pBuffer, requestedSector) ==
    IF requestedSector = 0
    THEN [map  |-> [i \in DOMAIN map |-> W25qxx_Program(ErasedByte, pBuffer)],
          data |-> data]
    ELSE [map  |-> map,
          data |-> [data EXCEPT ![requestedSector] =
                      IF W25qxx_IsEmptySector(@)
                      THEN W25qxx_Program(@, pBuffer)
                      ELSE W25qxx_Program(ErasedByte, pBuffer)]]

\* fctr_writeByte: program one byte of the Map Sector and read it back.
\* cellOk = FALSE is a cell that does not take the write.
fctr_writeByte(map, byteToWrite, requestedAddress, cellOk) ==
    LET written == IF cellOk
                   THEN W25qxx_Program(map[requestedAddress], byteToWrite)
                   ELSE map[requestedAddress]
    IN  [map    |-> [map EXCEPT ![requestedAddress] = written],
         result |-> IF written = byteToWrite THEN FCTRSTAT_OK
                    ELSE FCTRSTAT_ERROR]

(***************************************************************************)
(* Internal functions of the library.                                      *)
(***************************************************************************)
\* the for loops of the source: the first index from `from` whose entry is
\* `code`, or FCTR_AVAILABLE_SECTORS when the loop runs out
RECURSIVE ScanFor(_, _, _, _)
ScanFor(status, code, from, n) ==
    IF from >= n THEN n
    ELSE IF status[from] = code THEN from
    ELSE ScanFor(status, code, from + 1, n)

\* fctr_changeSectorStatus: the byte write, then the mirror is set whatever
\* the write returned
fctr_changeSectorStatus(status, map, newSectorStat, sector, cellOk) ==
    LET w == fctr_writeByte(map, newSectorStat, sector, cellOk)
    IN  [status |-> [status EXCEPT ![sector] = newSectorStat],
         map    |-> w.map,
         result |-> w.result]

\* mutant: the compacted table stays in RAM and is not written to the medium
refreshTheMemoryStatus_NotPersisted(memStatus) ==
    [status |-> [memStatus EXCEPT ![0] = SIGNATURE_BYTE], map |-> flashMap]

\* fctr_refreshTheMemoryStatus: signature, then the whole table is rewritten
fctr_refreshTheMemoryStatus(memStatus) ==
    LET signed == [memStatus EXCEPT ![0] = SIGNATURE_BYTE]
    IN  [status |-> signed, map |-> fctr_writeSectorStatus(signed)]

\* mutant: only the signature is set, the entries keep what they held
formatTheMemorySpace_SignatureOnly(status) ==
    LET signed == [status EXCEPT ![0] = SIGNATURE_BYTE]
    IN  [status |-> signed, map |-> fctr_writeSectorStatus(signed)]

\* mutant: the entries are left as the erase leaves them, not set to EMPTY
formatTheMemorySpace_LeavesErased(status) ==
    LET fresh == [i \in DOMAIN status |->
                    IF i = 0 THEN SIGNATURE_BYTE ELSE ErasedByte]
    IN  [status |-> fresh, map |-> fctr_writeSectorStatus(fresh)]

\* fctr_formatTheMemorySpace: memset to EMPTY, signature, rewrite
fctr_formatTheMemorySpace(status) ==
    LET fresh == [i \in DOMAIN status |->
                    IF i = 0 THEN SIGNATURE_BYTE ELSE FCTR_SECTOR_EMPTY]
    IN  [status |-> fresh, map |-> fctr_writeSectorStatus(fresh)]

\* mutant: any sector that was written counts, delivered or not
findSectorToRead_AnyWritten(status) ==
    LET n == Cardinality(DOMAIN status)
        unread == ScanFor(status, FCTR_SECTOR_UNREAD, 1, n)
        read == ScanFor(status, FCTR_SECTOR_READ, 1, n)
        first == IF unread < read THEN unread ELSE read
    IN  IF first < n
        THEN [result |-> FCTRSTAT_OK, sector |-> first]
        ELSE [result |-> FCTRSTAT_ERROR, sector |-> 0]

\* mutant: the highest UNREAD entry is taken, not the lowest
findSectorToRead_Highest(status) ==
    LET n == Cardinality(DOMAIN status)
        unread == {i \in 1 .. n - 1 : status[i] = FCTR_SECTOR_UNREAD}
    IN  IF unread # {}
        THEN [result |-> FCTRSTAT_OK,
              sector |-> CHOOSE i \in unread : \A j \in unread : j <= i]
        ELSE [result |-> FCTRSTAT_ERROR, sector |-> 0]

\* mutant: the scan for an UNREAD entry starts one entry too far
findSectorToRead_FromTwo(status) ==
    LET n == Cardinality(DOMAIN status)
        unreadSector == ScanFor(status, FCTR_SECTOR_UNREAD, 2, n)
    IN  IF unreadSector < n
        THEN [result |-> FCTRSTAT_OK, sector |-> unreadSector]
        ELSE [result |-> FCTRSTAT_ERROR, sector |-> 0]

\* fctr_findSectorToRead: the first UNREAD entry from index 1
fctr_findSectorToRead(status) ==
    LET n == Cardinality(DOMAIN status)
        unreadSector == ScanFor(status, FCTR_SECTOR_UNREAD, 1, n)
    IN  IF unreadSector < n
        THEN [result |-> FCTRSTAT_OK, sector |-> unreadSector]
        ELSE [result |-> FCTRSTAT_ERROR, sector |-> 0]

\* mutant: the table is compacted on every call, EMPTY entry or not
findSectorToWrite_AlwaysCompacts(status, map) ==
    LET n == Cardinality(DOMAIN status)
        cleared == [i \in DOMAIN status |->
                      IF i >= 1 /\ status[i] # FCTR_SECTOR_UNREAD
                      THEN FCTR_SECTOR_EMPTY ELSE status[i]]
        signed == [cleared EXCEPT ![0] = SIGNATURE_BYTE]
        again == ScanFor(signed, FCTR_SECTOR_EMPTY, 0, n)
    IN  IF again < n
        THEN [result |-> FCTRSTAT_OK, sector |-> again, status |-> signed,
              map |-> fctr_writeSectorStatus(signed), rewrites |-> 1]
        ELSE [result |-> FCTRSTAT_ERROR, sector |-> 0,
              status |-> status, map |-> map, rewrites |-> 0]

\* mutant: the compaction reclaims the READ entries and no other
findSectorToWrite_ReclaimReadOnly(status, map) ==
    LET n == Cardinality(DOMAIN status)
        emptySector == ScanFor(status, FCTR_SECTOR_EMPTY, 1, n)
        foundASector == \E i \in 1 .. n - 1 : status[i] = FCTR_SECTOR_READ
        cleared == [i \in DOMAIN status |->
                      IF i >= 1 /\ status[i] = FCTR_SECTOR_READ
                      THEN FCTR_SECTOR_EMPTY ELSE status[i]]
        refreshed == fctr_refreshTheMemoryStatus(cleared)
        again == ScanFor(refreshed.status, FCTR_SECTOR_EMPTY, 0, n)
    IN  IF emptySector < n
        THEN [result |-> FCTRSTAT_OK, sector |-> emptySector,
              status |-> status, map |-> map, rewrites |-> 0]
        ELSE IF foundASector
        THEN [result |-> FCTRSTAT_OK, sector |-> again,
              status |-> refreshed.status, map |-> refreshed.map,
              rewrites |-> 1]
        ELSE [result |-> FCTRSTAT_ERROR, sector |-> 0,
              status |-> status, map |-> map, rewrites |-> 0]

\* mutant: the compaction starts at entry 0, as the rescan does, and the
\* table is written as it is, without the signature being set again
findSectorToWrite_CompactsSignature(status, map) ==
    LET n == Cardinality(DOMAIN status)
        emptySector == ScanFor(status, FCTR_SECTOR_EMPTY, 1, n)
        foundASector == \E i \in 0 .. n - 1 : status[i] # FCTR_SECTOR_UNREAD
        cleared == [i \in DOMAIN status |->
                      IF status[i] # FCTR_SECTOR_UNREAD
                      THEN FCTR_SECTOR_EMPTY ELSE status[i]]
        again == ScanFor(cleared, FCTR_SECTOR_EMPTY, 0, n)
    IN  IF emptySector < n
        THEN [result |-> FCTRSTAT_OK, sector |-> emptySector,
              status |-> status, map |-> map, rewrites |-> 0]
        ELSE IF foundASector
        THEN [result |-> IF again < n THEN FCTRSTAT_OK ELSE FCTRSTAT_ERROR,
              sector |-> IF again < n THEN again ELSE 0,
              status |-> cleared, map |-> fctr_writeSectorStatus(cleared),
              rewrites |-> 1]
        ELSE [result |-> FCTRSTAT_ERROR, sector |-> 0,
              status |-> status, map |-> map, rewrites |-> 0]

\* mutant: the compaction does not spare the UNREAD entries
findSectorToWrite_ReclaimAll(status, map) ==
    LET n == Cardinality(DOMAIN status)
        emptySector == ScanFor(status, FCTR_SECTOR_EMPTY, 1, n)
        cleared == [i \in DOMAIN status |->
                      IF i >= 1 THEN FCTR_SECTOR_EMPTY ELSE status[i]]
        signed == [cleared EXCEPT ![0] = SIGNATURE_BYTE]
    IN  IF emptySector < n
        THEN [result |-> FCTRSTAT_OK, sector |-> emptySector,
              status |-> status, map |-> map, rewrites |-> 0]
        ELSE [result |-> FCTRSTAT_OK,
              sector |-> ScanFor(signed, FCTR_SECTOR_EMPTY, 0, n),
              status |-> signed, map |-> fctr_writeSectorStatus(signed),
              rewrites |-> 1]

\* mutant: no compaction, a table without an EMPTY entry is simply full
findSectorToWrite_NoCompaction(status, map) ==
    LET n == Cardinality(DOMAIN status)
        emptySector == ScanFor(status, FCTR_SECTOR_EMPTY, 1, n)
    IN  IF emptySector < n
        THEN [result |-> FCTRSTAT_OK, sector |-> emptySector,
              status |-> status, map |-> map, rewrites |-> 0]
        ELSE [result |-> FCTRSTAT_ERROR, sector |-> 0,
              status |-> status, map |-> map, rewrites |-> 0]

\* fctr_findSectorToWrite: the first EMPTY entry from index 1; when there is
\* none, every entry that is not UNREAD becomes EMPTY, the table is rewritten
\* once and the scan is repeated from index 0
fctr_findSectorToWrite(status, map) ==
    LET n == Cardinality(DOMAIN status)
        emptySector == ScanFor(status, FCTR_SECTOR_EMPTY, 1, n)
        foundASector == \E i \in 1 .. n - 1 : status[i] # FCTR_SECTOR_UNREAD
        cleared == [i \in DOMAIN status |->
                      IF i >= 1 /\ status[i] # FCTR_SECTOR_UNREAD
                      THEN FCTR_SECTOR_EMPTY ELSE status[i]]
        refreshed == fctr_refreshTheMemoryStatus(cleared)
        again == ScanFor(refreshed.status, FCTR_SECTOR_EMPTY, 0, n)
    IN  IF emptySector < n
        THEN [result |-> FCTRSTAT_OK, sector |-> emptySector,
              status |-> status, map |-> map, rewrites |-> 0]
        ELSE IF foundASector
        THEN [result |-> IF again < n THEN FCTRSTAT_OK ELSE FCTRSTAT_ERROR,
              sector |-> IF again < n THEN again ELSE 0,
              status |-> refreshed.status, map |-> refreshed.map,
              rewrites |-> 1]
        ELSE [result |-> FCTRSTAT_ERROR, sector |-> 0,
              status |-> status, map |-> map, rewrites |-> 0]

(***************************************************************************)
(* Main functions of the library, as functions of the state they read.     *)
(***************************************************************************)
\* mutant: the result of the allocator is not looked at
pushToFlash_AllocatorUnchecked(status, map, data, pBuffer, cellOk) ==
    LET f == fctr_findSectorToWrite(status, map)
        w == fctr_writeSector(f.map, data, pBuffer, f.sector)
        c == fctr_changeSectorStatus(f.status, w.map, FCTR_SECTOR_UNREAD,
                                     f.sector, cellOk)
    IN  [result |-> IF f.result # FCTRSTAT_OK THEN FCTRSTAT_ERROR
                    ELSE c.result,
         sector |-> f.sector, status |-> c.status, map |-> c.map,
         data |-> w.data, rewrites |-> f.rewrites,
         verifyFailed |-> f.result = FCTRSTAT_OK /\ c.result # FCTRSTAT_OK]

\* fctr_pushToFlash
fctr_pushToFlash(status, map, data, pBuffer, cellOk) ==
    LET f == fctr_findSectorToWrite(status, map)
        w == fctr_writeSector(f.map, data, pBuffer, f.sector)
        c == fctr_changeSectorStatus(f.status, w.map, FCTR_SECTOR_UNREAD,
                                     f.sector, cellOk)
    IN  IF f.result # FCTRSTAT_OK
        THEN [result |-> FCTRSTAT_ERROR, sector |-> f.sector,
              status |-> f.status, map |-> f.map, data |-> data,
              rewrites |-> f.rewrites, verifyFailed |-> FALSE]
        ELSE [result |-> c.result, sector |-> f.sector,
              status |-> c.status, map |-> c.map, data |-> w.data,
              rewrites |-> f.rewrites,
              verifyFailed |-> c.result # FCTRSTAT_OK]

\* mutant: the pop marks its sector EMPTY, which takes a rewrite of the table
popFromFlash_FreesSector(status, map, data, cellOk) ==
    LET f == fctr_findSectorToRead(status)
        freed == [status EXCEPT ![f.sector] = FCTR_SECTOR_EMPTY]
    IN  IF f.result # FCTRSTAT_OK
        THEN [result |-> FCTRSTAT_ERROR, sector |-> f.sector,
              payload |-> NoPayload, status |-> status, map |-> map,
              verifyFailed |-> FALSE]
        ELSE [result |-> FCTRSTAT_OK, sector |-> f.sector,
              payload |-> fctr_readSector(data, f.sector),
              status |-> freed, map |-> fctr_writeSectorStatus(freed),
              verifyFailed |-> FALSE]

\* fctr_popFromFlash
fctr_popFromFlash(status, map, data, cellOk) ==
    LET f == fctr_findSectorToRead(status)
        c == fctr_changeSectorStatus(status, map, FCTR_SECTOR_READ,
                                     f.sector, cellOk)
    IN  IF f.result # FCTRSTAT_OK
        THEN [result |-> FCTRSTAT_ERROR, sector |-> f.sector,
              payload |-> NoPayload, status |-> status, map |-> map,
              verifyFailed |-> FALSE]
        ELSE [result |-> c.result, sector |-> f.sector,
              payload |-> fctr_readSector(data, f.sector),
              status |-> c.status, map |-> c.map,
              verifyFailed |-> c.result # FCTRSTAT_OK]

\* fctr_initIC
fctr_initIC(initOk) == IF initOk THEN FCTRSTAT_OK ELSE FCTRSTAT_ERROR

\* mutant: a device that is not the compiled one is refused
getFlashSizes_CompiledOnly(capacityKB) ==
    IF capacityKB # FCTR_TOTAL_MEMORYSIZE_BYTES \div FCTR_SIZE_OF_KILOBYTE
    THEN FCTRSTAT_ERROR ELSE FCTRSTAT_OK

\* fctr_getFlashSizes: a device of less than 1024 KB is refused
fctr_getFlashSizes(capacityKB) ==
    IF capacityKB < FCTR_SIZE_OF_KILOBYTE THEN FCTRSTAT_ERROR
    ELSE FCTRSTAT_OK

\* mutant: the table is formatted whatever the signature is
firstInit_AlwaysFormat(status, map, initOk, capacityKB, sectorSize) ==
    LET fmt == fctr_formatTheMemorySpace(fctr_readSectorStatus(map))
    IN  IF fctr_initIC(initOk) # FCTRSTAT_OK
           \/ fctr_getFlashSizes(capacityKB) # FCTRSTAT_OK
        THEN [result |-> FCTRSTAT_ERROR, status |-> status, map |-> map,
              rewrites |-> 0, overrun |-> FALSE]
        ELSE [result |-> FCTRSTAT_OK,
              status |-> fctr_readSectorStatus(fmt.map), map |-> fmt.map,
              rewrites |-> 1, overrun |-> FALSE]

\* fctr_firstInit.  The reload after a format reads FCTR_SECTOR_SIZE bytes
\* into the FCTR_AVAILABLE_SECTORS bytes of the mirror: the mirror receives
\* the table and the rest runs past its end (overrun).
fctr_firstInit(status, map, initOk, capacityKB, sectorSize) ==
    LET loaded == fctr_readSectorStatus(map)
        fmt == fctr_formatTheMemorySpace(loaded)
    IN  IF fctr_initIC(initOk) # FCTRSTAT_OK
           \/ fctr_getFlashSizes(capacityKB) # FCTRSTAT_OK
        THEN [result |-> FCTRSTAT_ERROR, status |-> status, map |-> map,
              rewrites |-> 0, overrun |-> FALSE]
        ELSE IF loaded[0] # SIGNATURE_BYTE
        THEN [result |-> FCTRSTAT_OK,
              status |-> fctr_readSectorStatus(fmt.map), map |-> fmt.map,
              rewrites |-> 1,
              overrun |-> FCTR_SECTOR_SIZE > Cardinality(DOMAIN status)]
        ELSE [result |-> FCTRSTAT_OK, status |-> loaded, map |-> map,
              rewrites |-> 0, overrun |-> FALSE]

(***************************************************************************)
(* Observations.                                                           *)
(***************************************************************************)
Usable == 1 .. FCTR_AVAILABLE_SECTORS - 1

\* the device of an observation that is not one of fctr_firstInit
NoDevice == [initOk |-> TRUE, capacityKB |-> 0, sectorSize |-> 0]

\* What an operation did and returned.  device: what the device answered to
\* fctr_initIC and fctr_getFlashSizes in a fctr_firstInit; reclaimed: the
\* codes of the entries that the compaction of a push set to EMPTY; afterCut: the operation that a power
\* loss had cut and that was still pending when this one ran; afterPush:
\* this pop read the sector that the operation just before it, a successful
\* push, had written.
Observed(op, result, sector, payload, rewrites, verifyFailed) ==
    [op |-> op, result |-> result, sector |-> sector, payload |-> payload,
     rewrites |-> rewrites, verifyFailed |-> verifyFailed,
     device |-> NoDevice,
     reclaimed |-> IF op = "push" /\ rewrites > 0
                   THEN {fctrStatusBytes[i] : i \in Usable}
                          \ {FCTR_SECTOR_UNREAD}
                   ELSE {},
     afterCut |-> IF op \in {"push", "pop"} THEN interrupted.op ELSE "none",
     afterPush |-> /\ op = "pop" /\ result = FCTRSTAT_OK
                   /\ last.op = "push" /\ last.result = FCTRSTAT_OK
                   /\ last.sector = sector]

\* The operation a power loss cut short: its sector, its payload and the
\* mirror at that moment.  The table is forgotten once a push or pop has
\* completed, the record once it has stopped mattering: a cut pop when the
\* next push or pop has completed, a cut push when the next push has.
NoInterrupt == [op |-> "none", sector |-> 0, payload |-> NoPayload,
                table |-> <<>>]

Touched(op) ==
    IF interrupted.op = "push" /\ op = "pop"
    THEN [interrupted EXCEPT !.table = <<>>]
    ELSE NoInterrupt

\* the observation of a program that has just started
Booted == [op |-> "boot", result |-> FCTRSTAT_OK, sector |-> 0,
           payload |-> NoPayload, rewrites |-> 0, verifyFailed |-> FALSE,
           device |-> NoDevice, reclaimed |-> {},
           afterCut |-> "none", afterPush |-> FALSE]

\* the zero-initialised mirror of a program that has just started
BootStatus(n) == [i \in 0 .. n - 1 |-> 0]

AllEmpty(status) ==
    \A i \in 1 .. Cardinality(DOMAIN status) - 1 : status[i] = FCTR_SECTOR_EMPTY

(***************************************************************************)
(* The scripted scenario of nine usable sectors.                           *)
(***************************************************************************)
ScenarioSectors == 9 + 1
ScenarioLength == 12 + 10
ScenarioOps ==
    [k \in 1 .. ScenarioLength |->
        IF k <= 10 THEN <<"push", k>>
        ELSE IF k = 11 THEN <<"pop", 0>>
        ELSE IF k = 12 THEN <<"push", 10>>
        ELSE <<"pop", 0>>]

Advance(op) ==
    IF step >= 0 /\ step < ScenarioLength /\ ScenarioOps[step + 1] = op
    THEN step + 1 ELSE Off

(***************************************************************************)
(* Actions.                                                                *)
(***************************************************************************)
\* power-on with a medium that has never been formatted by this library:
\* erased, or holding another user's bytes
InitOn(n) ==
    /\ fctrStatusBytes = BootStatus(n)
    /\ \E b \in {ErasedByte, FCTR_SECTOR_UNREAD} :
         flashMap = [i \in 0 .. n - 1 |-> b]
    /\ \E b \in {ErasedByte, 0} : flashData = [i \in 1 .. n - 1 |-> b]
    /\ ready = FALSE
    /\ last = Booted
    /\ outstanding = EmptyBag
    /\ pushRun = Off
    /\ interrupted = NoInterrupt

Init == InitOn(NumSectors) /\ step = Off

\* what the device answers: it does not initialise, or it reports itself
\* too small, as compiled, or as another chip
Devices ==
    LET compiledKB == FCTR_TOTAL_MEMORYSIZE_BYTES \div FCTR_SIZE_OF_KILOBYTE
    IN  {[initOk |-> FALSE, capacityKB |-> compiledKB,
          sectorSize |-> FCTR_SECTOR_SIZE],
         [initOk |-> TRUE, capacityKB |-> 512,
          sectorSize |-> FCTR_SECTOR_SIZE],
         [initOk |-> TRUE, capacityKB |-> compiledKB,
          sectorSize |-> FCTR_SECTOR_SIZE],
         [initOk |-> TRUE, capacityKB |-> 16384, sectorSize |-> 512]}

FirstInit ==
    /\ ~ready
    /\ \E device \in Devices :
         LET r == fctr_firstInit(fctrStatusBytes, flashMap, device.initOk,
                                 device.capacityKB, device.sectorSize)
         IN  /\ fctrStatusBytes' = r.status
             /\ flashMap' = r.map
             /\ ready' = (r.result = FCTRSTAT_OK)
             /\ last' = [Observed("init", r.result, 0, NoPayload, r.rewrites,
                                  FALSE)
                            EXCEPT !.device = device]
             /\ pushRun' = IF r.result = FCTRSTAT_OK /\ AllEmpty(r.status)
                           THEN 0 ELSE Off
    /\ UNCHANGED <<flashData, outstanding, step, interrupted>>

Push(pBuffer, cellOk) ==
    /\ ready
    /\ LET r == fctr_pushToFlash(fctrStatusBytes, flashMap, flashData,
                                 pBuffer, cellOk)
       IN  /\ fctrStatusBytes' = r.status
           /\ flashMap' = r.map
           /\ flashData' = r.data
           /\ last' = Observed("push", r.result, r.sector, pBuffer,
                               r.rewrites, r.verifyFailed)
           /\ outstanding' =
                IF r.result = FCTRSTAT_OK
                   /\ CopiesIn(pBuffer, outstanding) < FCTR_AVAILABLE_SECTORS - 1
                THEN outstanding (+) SetToBag({pBuffer})
                ELSE outstanding
           /\ interrupted' = Touched("push")
    /\ pushRun' = IF pushRun >= 0 /\ pushRun < FCTR_AVAILABLE_SECTORS
                  THEN pushRun + 1 ELSE Off
    /\ step' = Advance(<<"push", pBuffer>>)
    /\ UNCHANGED ready

Pop(cellOk) ==
    /\ ready
    /\ LET r == fctr_popFromFlash(fctrStatusBytes, flashMap, flashData, cellOk)
       IN  /\ fctrStatusBytes' = r.status
           /\ flashMap' = r.map
           /\ last' = Observed("pop", r.result, r.sector, r.payload, 0,
                               r.verifyFailed)
           /\ outstanding' =
                IF r.result = FCTRSTAT_OK /\ BagIn(r.payload, outstanding)
                THEN outstanding (-) SetToBag({r.payload})
                ELSE outstanding
    /\ interrupted' = Touched("pop")
    /\ pushRun' = Off
    /\ step' = Advance(<<"pop", 0>>)
    /\ UNCHANGED <<flashData, ready>>

\* the program is restarted between two operations: RAM starts from zero
Reboot ==
    /\ ready
    /\ fctrStatusBytes' = BootStatus(FCTR_AVAILABLE_SECTORS)
    /\ ready' = FALSE
    /\ last' = Booted
    /\ pushRun' = Off
    /\ step' = Off
    /\ UNCHANGED <<flashMap, flashData, outstanding, interrupted>>

Next ==
    \/ FirstInit
    \/ \E p \in Payloads : Push(p, TRUE)
    \/ Pop(TRUE)
    \/ Reboot

Spec == Init /\ [][Next]_vars

(***************************************************************************)
(* Device faults: a status byte that does not take the write.              *)
(***************************************************************************)
NextFault ==
    \/ FirstInit
    \/ \E p \in Payloads, cellOk \in BOOLEAN : Push(p, cellOk)
    \/ \E cellOk \in BOOLEAN : Pop(cellOk)
    \/ Reboot

SpecFault == Init /\ [][NextFault]_vars

(***************************************************************************)
(* Power loss inside an operation.  The medium keeps what was written, the *)
(* program restarts with its RAM zeroed and has to run fctr_firstInit.     *)
(***************************************************************************)
\* fctr_pushToFlash cut between fctr_writeSector and fctr_changeSectorStatus
PushInterrupted(pBuffer) ==
    /\ ready
    /\ LET f == fctr_findSectorToWrite(fctrStatusBytes, flashMap)
           w == fctr_writeSector(f.map, flashData, pBuffer, f.sector)
       IN  /\ f.result = FCTRSTAT_OK
           /\ flashMap' = w.map
           /\ flashData' = w.data
           /\ interrupted' = [op |-> "push", sector |-> f.sector,
                              payload |-> pBuffer, table |-> f.status]
    /\ fctrStatusBytes' = BootStatus(FCTR_AVAILABLE_SECTORS)
    /\ ready' = FALSE
    /\ last' = Booted
    /\ pushRun' = Off
    /\ step' = Off
    /\ UNCHANGED outstanding

\* fctr_popFromFlash cut between fctr_readSector and fctr_changeSectorStatus
PopInterrupted ==
    /\ ready
    /\ LET f == fctr_findSectorToRead(fctrStatusBytes)
       IN  /\ f.result = FCTRSTAT_OK
           /\ interrupted' = [op |-> "pop", sector |-> f.sector,
                              payload |-> fctr_readSector(flashData, f.sector),
                              table |-> fctrStatusBytes]
    /\ fctrStatusBytes' = BootStatus(FCTR_AVAILABLE_SECTORS)
    /\ ready' = FALSE
    /\ last' = Booted
    /\ pushRun' = Off
    /\ step' = Off
    /\ UNCHANGED <<flashMap, flashData, outstanding>>

NextCrash ==
    \/ FirstInit
    \/ \E p \in Payloads : Push(p, TRUE)
    \/ Pop(TRUE)
    \/ Reboot
    \/ \E p \in Payloads : PushInterrupted(p)
    \/ PopInterrupted

SpecCrash == Init /\ [][NextCrash]_vars

\* fctr_pushToFlash cut inside the compaction of fctr_findSectorToWrite:
\* fctr_writeSectorStatus has erased the Map Sector and has written the
\* first `written` bytes of the table when the power goes
CompactionInterrupted(written) ==
    /\ ready
    /\ LET f == fctr_findSectorToWrite(fctrStatusBytes, flashMap)
       IN  /\ f.rewrites = 1
           /\ flashMap' = [i \in DOMAIN flashMap |->
                             IF i < written
                             THEN W25qxx_Program(ErasedByte, f.status[i])
                             ELSE ErasedByte]
    /\ interrupted' = [op |-> "compact", sector |-> 0, payload |-> NoPayload,
                       table |-> fctrStatusBytes]
    /\ fctrStatusBytes' = BootStatus(FCTR_AVAILABLE_SECTORS)
    /\ ready' = FALSE
    /\ last' = Booted
    /\ pushRun' = Off
    /\ step' = Off
    /\ UNCHANGED <<flashData, outstanding>>

NextPowerLoss ==
    \/ NextCrash
    \/ \E written \in 0 .. FCTR_AVAILABLE_SECTORS :
         CompactionInterrupted(written)

SpecPowerLoss == Init /\ [][NextPowerLoss]_vars

(***************************************************************************)
(* The scenario: a fresh medium of nine usable sectors, initialised, then  *)
(* pushes and pops; a push offers the payload the script asks for next.    *)
(***************************************************************************)
InitScenario ==
    /\ InitOn(ScenarioSectors)
    /\ flashMap[0] = ErasedByte
    /\ flashData[1] = ErasedByte
    /\ step = 0

ScenarioPayloads ==
    IF step >= 0 /\ step < ScenarioLength /\ ScenarioOps[step + 1][1] = "push"
    THEN {ScenarioOps[step + 1][2]} ELSE {1}

NextScenario ==
    \/ FirstInit
    \/ \E p \in ScenarioPayloads : Push(p, TRUE)
    \/ Pop(TRUE)

SpecScenario == InitScenario /\ [][NextScenario]_vars

(***************************************************************************)
(* A medium that holds any table: left by another user of the chip, or     *)
(* corrupted.  Every byte that is not one of the three codes is handled    *)
(* alike by the source; 0xFF and 0x00 stand for them.                      *)
(***************************************************************************)
MediumBytes == {FCTR_SECTOR_RESERVED, FCTR_SECTOR_EMPTY, FCTR_SECTOR_UNREAD,
                FCTR_SECTOR_READ, 0}

InitMedium(n) ==
    /\ fctrStatusBytes = BootStatus(n)
    /\ flashMap \in [0 .. n - 1 -> MediumBytes \cup {SIGNATURE_BYTE}]
    /\ flashMap[0] \in {SIGNATURE_BYTE, FCTR_SECTOR_RESERVED}
    /\ \A i \in 1 .. n - 1 : flashMap[i] \in MediumBytes
    /\ \E b \in {ErasedByte, 0} : flashData = [i \in 1 .. n - 1 |-> b]
    /\ ready = FALSE
    /\ last = Booted
    /\ outstanding = EmptyBag
    /\ pushRun = Off
    /\ interrupted = NoInterrupt

InitAnyMedium == InitMedium(NumSectors) /\ step = Off

\* the operations of the library on a medium that holds any table
SpecMedium == InitAnyMedium /\ [][Next]_vars

(***************************************************************************)
(* The formatter on its own: the table is loaded from the medium as        *)
(* fctr_firstInit loads it, and fctr_formatTheMemorySpace is applied, up   *)
(* to FormatRuns times in a row.  For a format, the rewrites of the        *)
(* observation count the formats made in a row.                            *)
(***************************************************************************)
FormatRuns == 2

ReadSectorStatus ==
    /\ last.op = "boot"
    /\ fctrStatusBytes' = fctr_readSectorStatus(flashMap)
    /\ last' = Observed("load", FCTRSTAT_OK, 0, NoPayload, 0, FALSE)
    /\ UNCHANGED <<flashMap, flashData, ready, outstanding, pushRun, step,
                   interrupted>>

FormatTheMemorySpace ==
    /\ last.op = "format" => last.rewrites < FormatRuns
    /\ LET r == fctr_formatTheMemorySpace(fctrStatusBytes)
       IN  /\ fctrStatusBytes' = r.status
           /\ flashMap' = r.map
    /\ last' = Observed("format", FCTRSTAT_OK, 0, NoPayload,
                        IF last.op = "format" THEN last.rewrites + 1 ELSE 1,
                        FALSE)
    /\ UNCHANGED <<flashData, ready, outstanding, pushRun, step, interrupted>>

NextFormat ==
    \/ ReadSectorStatus
    \/ FormatTheMemorySpace

SpecFormat == InitAnyMedium /\ [][NextFormat]_vars

(***************************************************************************)
(* Helpers of the properties.                                              *)
(***************************************************************************)
NoneIs(status, code) ==
    \A i \in 1 .. Cardinality(DOMAIN status) - 1 : status[i] # code

SomeIs(status, code) ==
    \E i \in 1 .. Cardinality(DOMAIN status) - 1 : status[i] = code

\* the table a format leaves
FormattedTable ==
    [i \in DOMAIN fctrStatusBytes |->
        IF i = 0 THEN SIGNATURE_BYTE ELSE FCTR_SECTOR_EMPTY]

(***************************************************************************)
(* C1                                                                      *)
(***************************************************************************)
\* C1: without device failures, a pop that returns FCTRSTAT_OK delivers a
\* payload that an earlier successful push accepted and that no earlier
\* successful pop has delivered: it is in the bag of outstanding payloads.
C1_PopDeliversOutstanding ==
    [][(last'.op = "pop" /\ last'.result = FCTRSTAT_OK)
          => BagIn(last'.payload, outstanding)]_vars

\* a pop has delivered a payload from a sector that a compaction had
\* reclaimed (an EMPTY entry below a written one exists only after one)
C1_Witness ==
    /\ last.op = "pop" /\ last.result = FCTRSTAT_OK
    /\ last.payload \in Payloads
    /\ \E i \in Usable : /\ i > last.sector
                          /\ fctrStatusBytes[i] = FCTR_SECTOR_EMPTY
    /\ \E j \in Usable : /\ j > last.sector + 1
                          /\ fctrStatusBytes[j] = FCTR_SECTOR_UNREAD

(***************************************************************************)
(* C2                                                                      *)
(***************************************************************************)
\* what the scenario of the specification says each scripted step returns:
\* P1 .. P9 accepted, P10 refused, P1 popped, P10 accepted, then P2 .. P9
\* popped and a last pop that finds nothing
ScenarioClaimed(k) ==
    IF k <= 9 THEN [result |-> FCTRSTAT_OK, payload |-> k]
    ELSE IF k = 10 THEN [result |-> FCTRSTAT_ERROR, payload |-> 10]
    ELSE IF k = 11 THEN [result |-> FCTRSTAT_OK, payload |-> 1]
    ELSE IF k = 12 THEN [result |-> FCTRSTAT_OK, payload |-> 10]
    ELSE IF k <= 20 THEN [result |-> FCTRSTAT_OK, payload |-> k - 11]
    ELSE [result |-> FCTRSTAT_ERROR, payload |-> NoPayload]

\* what the code returns: P10 went to sector 1, so it is popped before
\* P2 .. P9, and nine pops succeed before the one that finds nothing
ScenarioAmended(k) ==
    IF k <= 12 THEN ScenarioClaimed(k)
    ELSE IF k = 13 THEN [result |-> FCTRSTAT_OK, payload |-> 10]
    ELSE IF k <= 21 THEN [result |-> FCTRSTAT_OK, payload |-> k - 12]
    ELSE [result |-> FCTRSTAT_ERROR, payload |-> NoPayload]

\* the parts of the scenario about the table: the first pop marks sector 1
\* READ, the push after it compacts and takes the reclaimed sector
ScenarioTable ==
    /\ step \in 1 .. 9 => last.sector = step /\ last.rewrites = 0
    /\ step = 10 => last.rewrites = 0
    /\ step = 11 => last.sector = 1 /\ fctrStatusBytes[1] = FCTR_SECTOR_READ
    /\ step = 12 => /\ last.rewrites = 1 /\ last.sector = 1
                    /\ NoneIs(fctrStatusBytes, FCTR_SECTOR_READ)
                    /\ NoneIs(fctrStatusBytes, FCTR_SECTOR_EMPTY)

\* C2 as claimed: on a fresh table of nine usable sectors the script returns
\* what the specification's scenario lists, step by step (21 steps).
C2_ScenarioAsClaimed ==
    step \in 1 .. 21 =>
        /\ last.op = ScenarioOps[step][1]
        /\ last.result = ScenarioClaimed(step).result
        /\ last.payload = ScenarioClaimed(step).payload
        /\ ScenarioTable

\* C2 amended: the same script, where the pops after the second push of P10
\* return P10, P2, ..., P9 (nine successful pops, in index order) and the
\* pop after them fails.
C2_ScenarioAmended ==
    step \in 1 .. ScenarioLength =>
        /\ last.op = ScenarioOps[step][1]
        /\ last.result = ScenarioAmended(step).result
        /\ last.payload = ScenarioAmended(step).payload
        /\ ScenarioTable

\* the whole script has run and its last pop found nothing
C2_Witness ==
    /\ step = ScenarioLength
    /\ last.op = "pop" /\ last.result = FCTRSTAT_ERROR
    /\ NoneIs(fctrStatusBytes, FCTR_SECTOR_UNREAD)

(***************************************************************************)
(* C3                                                                      *)
(***************************************************************************)
\* C3 as claimed: a pop that immediately follows a successful push(X)
\* succeeds and returns X.
C3_RoundTripAlways ==
    [][(last.op = "push" /\ last.result = FCTRSTAT_OK /\ last'.op = "pop")
          => (last'.result = FCTRSTAT_OK /\ last'.payload = last.payload)]_vars

\* C3 amended: a pop that immediately follows a successful push(X) succeeds
\* and returns X unchanged, from the sector the push wrote, provided no
\* sector of a lower index than that sector is UNREAD.
C3_RoundTripWhenFirst ==
    [][(/\ last.op = "push" /\ last.result = FCTRSTAT_OK /\ last'.op = "pop"
        /\ \A i \in 1 .. last.sector - 1 :
              fctrStatusBytes[i] # FCTR_SECTOR_UNREAD)
          => /\ last'.result = FCTRSTAT_OK
             /\ last'.payload = last.payload
             /\ last'.sector = last.sector]_vars

\* a payload came back right after its push, from a sector that held
\* another payload before, while an older payload waits at a higher index
C3_Witness ==
    /\ last.op = "pop" /\ last.result = FCTRSTAT_OK /\ last.afterPush
    /\ last.payload \in Payloads
    /\ SomeIs(fctrStatusBytes, FCTR_SECTOR_EMPTY)
    /\ SomeIs(fctrStatusBytes, FCTR_SECTOR_UNREAD)

(***************************************************************************)
(* C4                                                                      *)
(***************************************************************************)
\* C4: from a table whose usable entries are all EMPTY, the k-th push in a
\* row (k <= N - 1) succeeds, takes sector k and does not compact; the push
\* after the (N - 1)-th finds every usable entry UNREAD and fails, leaving
\* the table as it was.
C4_Capacity ==
    LET n == FCTR_AVAILABLE_SECTORS
    IN  pushRun >= 1 =>
          /\ last.op = "push"
          /\ last.rewrites = 0
          /\ pushRun <= n - 1 =>
               /\ last.result = FCTRSTAT_OK
               /\ last.sector = pushRun
               /\ \A i \in 1 .. n - 1 :
                    fctrStatusBytes[i] = IF i <= pushRun
                                         THEN FCTR_SECTOR_UNREAD
                                         ELSE FCTR_SECTOR_EMPTY
          /\ pushRun = n =>
               /\ last.result = FCTRSTAT_ERROR
               /\ \A i \in 1 .. n - 1 :
                    fctrStatusBytes[i] = FCTR_SECTOR_UNREAD
               /\ flashMap = fctrStatusBytes

\* the push after the table was filled has failed
C4_Witness ==
    /\ pushRun = FCTR_AVAILABLE_SECTORS
    /\ last.op = "push" /\ last.result = FCTRSTAT_ERROR
    /\ NoneIs(fctrStatusBytes, FCTR_SECTOR_EMPTY)
    /\ NoneIs(fctrStatusBytes, FCTR_SECTOR_READ)

(***************************************************************************)
(* C5                                                                      *)
(***************************************************************************)
\* the table after a compaction of `status` and a push into `sector`
CompactedThenPushed(status, sector) ==
    [i \in DOMAIN status |->
        IF i = sector THEN FCTR_SECTOR_UNREAD
        ELSE IF i >= 1 /\ status[i] = FCTR_SECTOR_READ THEN FCTR_SECTOR_EMPTY
        ELSE status[i]]

\* C5: a push on a table with no EMPTY entry and at least one READ entry
\* succeeds after one rewrite of the Map Sector; it takes the lowest READ
\* sector, every other READ entry is EMPTY afterwards, no other entry has
\* changed, and the medium holds the same table.
C5_CompactionReclaimsRead ==
    [][(/\ last'.op = "push"
        /\ NoneIs(fctrStatusBytes, FCTR_SECTOR_EMPTY)
        /\ SomeIs(fctrStatusBytes, FCTR_SECTOR_READ))
          => /\ last'.result = FCTRSTAT_OK
             /\ last'.rewrites = 1
             /\ last'.sector = ScanFor(fctrStatusBytes, FCTR_SECTOR_READ, 1,
                                       FCTR_AVAILABLE_SECTORS)
             /\ fctrStatusBytes' =
                  CompactedThenPushed(fctrStatusBytes, last'.sector)
             /\ flashMap' = fctrStatusBytes'
             /\ flashData'[last'.sector] = last'.payload]_vars

\* a compaction has reclaimed two READ sectors and kept an UNREAD one
C5_Witness ==
    /\ last.op = "push" /\ last.result = FCTRSTAT_OK /\ last.rewrites = 1
    /\ SomeIs(fctrStatusBytes, FCTR_SECTOR_EMPTY)
    /\ \E i \in Usable : i # last.sector
                         /\ fctrStatusBytes[i] = FCTR_SECTOR_UNREAD

(***************************************************************************)
(* C6                                                                      *)
(***************************************************************************)
\* C6: a successful fctr_firstInit formats exactly when the signature byte
\* on the medium is not 0x55: then mirror and medium hold the formatted
\* table whatever they held; otherwise the mirror is the table of the medium
\* and the Map Sector is neither erased nor written.
C6_FormatIffBadSignature ==
    [][(last'.op = "init" /\ last'.result = FCTRSTAT_OK)
          => /\ (last'.rewrites = 1) <=> (flashMap[0] # SIGNATURE_BYTE)
             /\ flashMap[0] # SIGNATURE_BYTE
                  => /\ fctrStatusBytes' = FormattedTable
                     /\ flashMap' = FormattedTable
             /\ flashMap[0] = SIGNATURE_BYTE
                  => /\ fctrStatusBytes' = flashMap
                     /\ flashMap' = flashMap
                     /\ last'.rewrites = 0]_vars

\* a restart has loaded a table that holds undelivered and delivered data
C6_Witness ==
    /\ last.op = "init" /\ last.result = FCTRSTAT_OK /\ last.rewrites = 0
    /\ SomeIs(fctrStatusBytes, FCTR_SECTOR_UNREAD)
    /\ SomeIs(fctrStatusBytes, FCTR_SECTOR_READ)

(***************************************************************************)
(* C7, C8: under SpecFault                                                 *)
(***************************************************************************)
\* C7: after every push, pop or initialize that returns FCTRSTAT_OK the
\* mirror and the Map Sector hold the same signature and status codes.
C7_MirrorMatchesMedium ==
    (last.op \in {"push", "pop", "init"} /\ last.result = FCTRSTAT_OK)
        => \A i \in DOMAIN fctrStatusBytes : fctrStatusBytes[i] = flashMap[i]

\* C8: when the read-back of the status byte fails, the operation returns
\* FCTRSTAT_ERROR and the mirror entry of the sector keeps the code it had
\* before the write (UNREAD in a pop, EMPTY in a push).
C8_MirrorKeptOnVerifyFailure ==
    last.verifyFailed
        => /\ last.result = FCTRSTAT_ERROR
           /\ fctrStatusBytes[last.sector] =
                IF last.op = "pop" THEN FCTR_SECTOR_UNREAD
                ELSE FCTR_SECTOR_EMPTY

(***************************************************************************)
(* C9, C10: under SpecCrash                                                *)
(***************************************************************************)
\* C9: after a pop was cut by a power loss between reading the sector and
\* updating its status, the re-initialised table is the table of before,
\* the sector UNREAD in it and still holding its payload, and the next pop
\* delivers that payload from that sector.
C9_PopRetryRedelivers ==
    /\ []((interrupted.op = "pop" /\ ready)
            => /\ fctrStatusBytes = interrupted.table
               /\ fctrStatusBytes[interrupted.sector] = FCTR_SECTOR_UNREAD
               /\ flashData[interrupted.sector] = interrupted.payload)
    /\ [][(interrupted.op = "pop" /\ last'.op = "pop")
             => /\ last'.result = FCTRSTAT_OK
                /\ last'.sector = interrupted.sector
                /\ last'.payload = interrupted.payload]_vars

\* the pop after the restart has delivered a payload again
C9_Witness ==
    /\ last.op = "pop" /\ last.afterCut = "pop"
    /\ last.result = FCTRSTAT_OK /\ last.payload \in Payloads
    /\ fctrStatusBytes[last.sector] = FCTR_SECTOR_READ

\* C10: after a push was cut by a power loss between the sector write and
\* the status update, the re-initialisation does not format and loads the
\* table as it was when the push was cut, the sector EMPTY in it; until the
\* next push the sector holds the orphaned payload and stays EMPTY, no pop
\* reads it, and the next push takes that very sector.
C10_CutPushLeavesOrphan ==
    /\ []((interrupted.op = "push" /\ interrupted.table # <<>> /\ ready)
            => /\ fctrStatusBytes = interrupted.table
               /\ fctrStatusBytes[0] = SIGNATURE_BYTE
               /\ last.op = "init" /\ last.rewrites = 0)
    /\ []((interrupted.op = "push" /\ ready)
            => /\ fctrStatusBytes[interrupted.sector] = FCTR_SECTOR_EMPTY
               /\ flashMap[interrupted.sector] = FCTR_SECTOR_EMPTY
               /\ flashData[interrupted.sector] = interrupted.payload)
    /\ [][(/\ interrupted.op = "push"
           /\ last'.op = "pop" /\ last'.result = FCTRSTAT_OK)
             => last'.sector # interrupted.sector]_vars
    /\ [][(interrupted.op = "push" /\ last'.op = "push")
             => /\ last'.result = FCTRSTAT_OK
                /\ last'.sector = interrupted.sector]_vars

\* a push after the restart has written the orphaned sector again, below a
\* sector whose payload was delivered
C10_Witness ==
    /\ last.op = "push" /\ last.afterCut = "push"
    /\ last.result = FCTRSTAT_OK
    /\ fctrStatusBytes[last.sector] = FCTR_SECTOR_UNREAD
    /\ \E i \in Usable : /\ i > last.sector
                         /\ fctrStatusBytes[i] = FCTR_SECTOR_READ

(***************************************************************************)
(* C11: under SpecFormat                                                   *)
(***************************************************************************)
\* C11: whatever the mirror and the Map Sector held, a format leaves both
\* with the signature 0x55 and every usable entry EMPTY, and a format
\* applied to the table a format has left changes neither of them.
C11_FormatIdempotent ==
    [][(last'.op = "format")
          => /\ fctrStatusBytes' = FormattedTable
             /\ flashMap' = FormattedTable
             /\ last.op = "format"
                  => /\ fctrStatusBytes' = fctrStatusBytes
                     /\ flashMap' = flashMap]_vars

\* the formatter has run a second time on the table it had left
C11_Witness ==
    /\ last.op = "format" /\ last.rewrites = FormatRuns
    /\ fctrStatusBytes = FormattedTable
    /\ flashMap = FormattedTable

(***************************************************************************)
(* C12: under SpecMedium                                                   *)
(***************************************************************************)
\* C12: a pop returns the error of fctr_findSectorToRead exactly when no
\* usable entry of the table is UNREAD, as is the case for the pop that
\* follows a format; such a pop changes neither the mirror nor the Map
\* Sector nor any data sector.
C12_PopFailsIffNoUnread ==
    [][(last'.op = "pop")
          => /\ (last'.result = FCTRSTAT_ERROR /\ ~last'.verifyFailed)
                  <=> NoneIs(fctrStatusBytes, FCTR_SECTOR_UNREAD)
             /\ (last.op = "init" /\ last.rewrites = 1)
                  => last'.result = FCTRSTAT_ERROR
             /\ last'.result = FCTRSTAT_ERROR /\ ~last'.verifyFailed
                  => /\ fctrStatusBytes' = fctrStatusBytes
                     /\ flashMap' = flashMap
                     /\ flashData' = flashData]_vars

\* a pop has failed on the table a format has just left
C12_Witness ==
    /\ last.op = "pop" /\ last.result = FCTRSTAT_ERROR
    /\ fctrStatusBytes = FormattedTable
    /\ flashMap = FormattedTable

(***************************************************************************)
(* C13: under Spec                                                         *)
(***************************************************************************)
\* C13: fctr_firstInit fails exactly when the device does not initialise or
\* reports less than 1024 KB, and then the mirror is not loaded and the Map
\* Sector not written; a device whose total size or sector size differs
\* from the compiled ones is accepted, and the table is loaded (or
\* formatted and loaded) with the compiled length.
C13_InitFailures ==
    [][(last'.op = "init")
          => /\ (last'.result = FCTRSTAT_ERROR)
                  <=> \/ ~last'.device.initOk
                      \/ last'.device.capacityKB < FCTR_SIZE_OF_KILOBYTE
             /\ last'.result = FCTRSTAT_ERROR
                  => /\ fctrStatusBytes' = fctrStatusBytes
                     /\ flashMap' = flashMap
                     /\ last'.rewrites = 0
                     /\ ~ready'
             /\ last'.result = FCTRSTAT_OK
                  => /\ ready'
                     /\ fctrStatusBytes' = IF flashMap[0] = SIGNATURE_BYTE
                                           THEN flashMap ELSE FormattedTable
                     /\ fctrStatusBytes' # fctrStatusBytes]_vars

\* a device that reports too small a size was refused while the medium
\* held a formatted table with undelivered data, which was not loaded
C13_Witness ==
    /\ last.op = "init" /\ last.result = FCTRSTAT_ERROR
    /\ last.device.initOk
    /\ last.device.capacityKB < FCTR_SIZE_OF_KILOBYTE
    /\ flashMap[0] = SIGNATURE_BYTE
    /\ SomeIs(flashMap, FCTR_SECTOR_UNREAD)
    /\ fctrStatusBytes = BootStatus(FCTR_AVAILABLE_SECTORS)

(***************************************************************************)
(* C14: under SpecMedium                                                   *)
(***************************************************************************)
\* C14: while a usable entry is EMPTY, fctr_findSectorToWrite returns the
\* lowest EMPTY entry and leaves the mirror and the Map Sector as they are,
\* so that the push changes the one entry it takes, by a byte write; a push
\* rewrites the Map Sector only from a table without an EMPTY entry.
C14_AllocatorTakesLowestEmpty ==
    /\ []((ready /\ SomeIs(fctrStatusBytes, FCTR_SECTOR_EMPTY))
            => LET f == fctr_findSectorToWrite(fctrStatusBytes, flashMap)
               IN  /\ f.result = FCTRSTAT_OK
                   /\ f.sector = ScanFor(fctrStatusBytes, FCTR_SECTOR_EMPTY, 1,
                                         FCTR_AVAILABLE_SECTORS)
                   /\ f.status = fctrStatusBytes
                   /\ f.map = flashMap
                   /\ f.rewrites = 0)
    /\ [][(last'.op = "push")
             => /\ SomeIs(fctrStatusBytes, FCTR_SECTOR_EMPTY)
                  => /\ last'.result = FCTRSTAT_OK
                     /\ last'.rewrites = 0
                     /\ last'.sector =
                          ScanFor(fctrStatusBytes, FCTR_SECTOR_EMPTY, 1,
                                  FCTR_AVAILABLE_SECTORS)
                     /\ fctrStatusBytes' =
                          [fctrStatusBytes EXCEPT ![last'.sector] =
                              FCTR_SECTOR_UNREAD]
                     /\ flashMap' =
                          [flashMap EXCEPT ![last'.sector] =
                              FCTR_SECTOR_UNREAD]
                /\ last'.rewrites > 0
                  => NoneIs(fctrStatusBytes, FCTR_SECTOR_EMPTY)]_vars

\* a push has taken an EMPTY sector above a READ one, which it left READ
C14_Witness ==
    /\ last.op = "push" /\ last.result = FCTRSTAT_OK /\ last.rewrites = 0
    /\ \E i \in Usable : /\ i < last.sector
                          /\ fctrStatusBytes[i] = FCTR_SECTOR_READ
    /\ \E j \in Usable : /\ j > last.sector
                          /\ fctrStatusBytes[j] = FCTR_SECTOR_EMPTY

(***************************************************************************)
(* C15: under SpecMedium                                                   *)
(***************************************************************************)
\* the table a compaction of `status` leaves
Compacted(status) ==
    [i \in DOMAIN status |->
        IF i = 0 THEN SIGNATURE_BYTE
        ELSE IF status[i] = FCTR_SECTOR_UNREAD THEN FCTR_SECTOR_UNREAD
        ELSE FCTR_SECTOR_EMPTY]

\* C15: on a table without an EMPTY entry and with an entry that is not
\* UNREAD, fctr_findSectorToWrite leaves every UNREAD entry UNREAD, sets
\* every other usable entry to EMPTY whatever byte it held, keeps the
\* signature 0x55 and writes that table to the Map Sector; a push rewrites
\* the Map Sector at most once, and the table after it is the compacted one
\* with the sector of the push UNREAD.
C15_CompactionFrame ==
    /\ []((/\ ready
           /\ NoneIs(fctrStatusBytes, FCTR_SECTOR_EMPTY)
           /\ \E i \in Usable : fctrStatusBytes[i] # FCTR_SECTOR_UNREAD)
            => LET f == fctr_findSectorToWrite(fctrStatusBytes, flashMap)
               IN  /\ f.result = FCTRSTAT_OK
                   /\ f.rewrites = 1
                   /\ f.status = Compacted(fctrStatusBytes)
                   /\ f.map = f.status
                   /\ fctrStatusBytes[f.sector] # FCTR_SECTOR_UNREAD)
    /\ [][(last'.op = "push")
             => /\ last'.rewrites <= 1
                /\ last'.rewrites = 1
                  => /\ fctrStatusBytes' =
                          [Compacted(fctrStatusBytes) EXCEPT ![last'.sector] =
                              FCTR_SECTOR_UNREAD]
                     /\ flashMap' = fctrStatusBytes'
                     /\ \A i \in Usable :
                          fctrStatusBytes[i] = FCTR_SECTOR_UNREAD
                            => /\ fctrStatusBytes'[i] = FCTR_SECTOR_UNREAD
                               /\ flashData'[i] = flashData[i]]_vars

\* a compaction has reclaimed an unformatted entry and an entry of an
\* unrecognised byte, and has kept an UNREAD entry
C15_Witness ==
    /\ last.op = "push" /\ last.result = FCTRSTAT_OK /\ last.rewrites = 1
    /\ {FCTR_SECTOR_RESERVED, 0} \subseteq last.reclaimed
    /\ \E i \in Usable : /\ i # last.sector
                          /\ fctrStatusBytes[i] = FCTR_SECTOR_UNREAD
    /\ SomeIs(fctrStatusBytes, FCTR_SECTOR_EMPTY)

(***************************************************************************)
(* C16: under Spec                                                         *)
(***************************************************************************)
\* C16: a push on a table whose usable entries are all UNREAD returns the
\* error of the allocator and changes nothing: the mirror, the Map Sector
\* (not rewritten) and every data sector are as before; and the allocator
\* refuses a push on no other table.
C16_FullPushChangesNothing ==
    [][(last'.op = "push")
          => /\ (\A i \in Usable : fctrStatusBytes[i] = FCTR_SECTOR_UNREAD)
                  => /\ last'.result = FCTRSTAT_ERROR
                     /\ ~last'.verifyFailed
                     /\ last'.rewrites = 0
                     /\ fctrStatusBytes' = fctrStatusBytes
                     /\ flashMap' = flashMap
                     /\ flashData' = flashData
             /\ (last'.result = FCTRSTAT_ERROR /\ ~last'.verifyFailed)
                  => \A i \in Usable : fctrStatusBytes[i] = FCTR_SECTOR_UNREAD
         ]_vars

\* a push was refused while every sector held an accepted, undelivered
\* payload, and not as the first refusal after the table was filled
C16_Witness ==
    /\ last.op = "push" /\ last.result = FCTRSTAT_ERROR
    /\ pushRun = Off
    /\ \A i \in Usable : /\ fctrStatusBytes[i] = FCTR_SECTOR_UNREAD
                          /\ flashMap[i] = FCTR_SECTOR_UNREAD
                          /\ flashData[i] \in Payloads
    /\ BagCardinality(outstanding) = FCTR_AVAILABLE_SECTORS - 1

(***************************************************************************)
(* C17: under SpecMedium                                                   *)
(***************************************************************************)
\* C17: a pop that returns FCTRSTAT_OK delivers what the lowest-indexed
\* UNREAD sector holds; that entry goes from UNREAD to READ in the mirror
\* and is READ on the medium, no other entry of the mirror or of the Map
\* Sector changes (so no compaction, no rewrite), and no data sector
\* changes.
C17_PopFrame ==
    [][(last'.op = "pop" /\ last'.result = FCTRSTAT_OK)
          => LET s == last'.sector
             IN  /\ s = ScanFor(fctrStatusBytes, FCTR_SECTOR_UNREAD, 1,
                                FCTR_AVAILABLE_SECTORS)
                 /\ s \in Usable
                 /\ last'.payload = flashData[s]
                 /\ fctrStatusBytes[s] = FCTR_SECTOR_UNREAD
                 /\ fctrStatusBytes' =
                      [fctrStatusBytes EXCEPT ![s] = FCTR_SECTOR_READ]
                 /\ flashMap' = [flashMap EXCEPT ![s] = FCTR_SECTOR_READ]
                 /\ last'.rewrites = 0
                 /\ flashData' = flashData]_vars

\* a pop has delivered from a sector that lies between a READ sector and
\* an UNREAD one, both left as they were
C17_Witness ==
    /\ last.op = "pop" /\ last.result = FCTRSTAT_OK
    /\ last.payload = flashData[last.sector]
    /\ fctrStatusBytes[last.sector] = FCTR_SECTOR_READ
    /\ \E i \in Usable : /\ i < last.sector
                          /\ fctrStatusBytes[i] = FCTR_SECTOR_READ
    /\ \E j \in Usable : /\ j > last.sector
                          /\ fctrStatusBytes[j] = FCTR_SECTOR_UNREAD

(***************************************************************************)
(* C18: under SpecCrash                                                    *)
(***************************************************************************)
\* the byte of the Map Sector that the status write of a push meets: the
\* allocator has run, and compacted if it had to
ByteMetByPush ==
    LET f == fctr_findSectorToWrite(fctrStatusBytes, flashMap)
    IN  f.map[f.sector]

\* C18: the status byte that a push or a pop writes only clears bits of the
\* byte it meets on the medium (EMPTY under UNREAD, UNREAD under READ), so
\* that the byte reads back as written and the write needs no erase; the
\* way back from READ to EMPTY would set a bit.
C18_StatusWritesClearBits ==
    /\ [][(last'.op = "push" /\ last'.result = FCTRSTAT_OK)
             => /\ ByteMetByPush = FCTR_SECTOR_EMPTY
                /\ BitAnd(ByteMetByPush, FCTR_SECTOR_UNREAD)
                     = FCTR_SECTOR_UNREAD
                /\ flashMap'[last'.sector] = FCTR_SECTOR_UNREAD]_vars
    /\ [][(last'.op = "pop" /\ last'.result = FCTRSTAT_OK)
             => /\ flashMap[last'.sector] = FCTR_SECTOR_UNREAD
                /\ BitAnd(flashMap[last'.sector], FCTR_SECTOR_READ)
                     = FCTR_SECTOR_READ
                /\ flashMap'[last'.sector] = FCTR_SECTOR_READ]_vars
    /\ [][(last'.op \in {"push", "pop"}) => ~last'.verifyFailed]_vars
    /\ [](BitAnd(FCTR_SECTOR_READ, FCTR_SECTOR_EMPTY) # FCTR_SECTOR_EMPTY)

\* both byte writes have been made on the medium without a rewrite: a push
\* has marked its sector UNREAD beside a sector that a pop marked READ
C18_Witness ==
    /\ last.op = "push" /\ last.result = FCTRSTAT_OK /\ last.rewrites = 0
    /\ flashMap[last.sector] = FCTR_SECTOR_UNREAD
    /\ SomeIs(flashMap, FCTR_SECTOR_READ)

(***************************************************************************)
(* C19: under Spec                                                         *)
(***************************************************************************)
StatusCodes == {FCTR_SECTOR_EMPTY, FCTR_SECTOR_UNREAD, FCTR_SECTOR_READ}

\* the table is one of a formatted medium
WellFormed(status) ==
    /\ status[0] = SIGNATURE_BYTE
    /\ \A i \in 1 .. Cardinality(DOMAIN status) - 1 : status[i] \in StatusCodes

\* C19: on a medium that the library has formatted, whenever the table is
\* loaded the signature slot is 0x55 and every usable entry is EMPTY, UNREAD
\* or READ, in the mirror and on the medium; an entry changes only from
\* EMPTY to UNREAD (the sector a push takes), from UNREAD to READ (the
\* sector a pop delivers) and from READ to EMPTY (the compaction inside a
\* push, before that push takes its sector).
C19_EntryLifeCycle ==
    /\ [](ready => WellFormed(fctrStatusBytes) /\ WellFormed(flashMap))
    /\ [][(last'.op = "pop")
             => \A i \in Usable :
                  \/ fctrStatusBytes'[i] = fctrStatusBytes[i]
                  \/ /\ i = last'.sector
                     /\ fctrStatusBytes[i] = FCTR_SECTOR_UNREAD
                     /\ fctrStatusBytes'[i] = FCTR_SECTOR_READ]_vars
    /\ [][(last'.op = "push")
             => LET f == fctr_findSectorToWrite(fctrStatusBytes, flashMap)
                IN  \A i \in Usable :
                      /\ \/ f.status[i] = fctrStatusBytes[i]
                         \/ /\ last'.rewrites = 1
                            /\ fctrStatusBytes[i] = FCTR_SECTOR_READ
                            /\ f.status[i] = FCTR_SECTOR_EMPTY
                      /\ \/ fctrStatusBytes'[i] = f.status[i]
                         \/ /\ i = last'.sector
                            /\ f.status[i] = FCTR_SECTOR_EMPTY
                            /\ fctrStatusBytes'[i] = FCTR_SECTOR_UNREAD]_vars

\* the table holds an EMPTY, an UNREAD and a READ entry after a pop, the
\* EMPTY one below an UNREAD one, as only a compaction leaves it
C19_Witness ==
    /\ ready /\ last.op = "pop" /\ last.result = FCTRSTAT_OK
    /\ WellFormed(fctrStatusBytes)
    /\ \A c \in StatusCodes : SomeIs(fctrStatusBytes, c)
    /\ \A c \in StatusCodes : SomeIs(flashMap, c)
    /\ \E i, j \in Usable : /\ i < j
                             /\ fctrStatusBytes[i] = FCTR_SECTOR_EMPTY
                             /\ fctrStatusBytes[j] = FCTR_SECTOR_UNREAD

(***************************************************************************)
(* C20: under SpecScenario                                                 *)
(***************************************************************************)
\* C20: delivery is not in the order of the pushes.  On the scripted run
\* (P1 .. P9 pushed, P10 refused, P1 popped, P10 pushed into the compacted
\* table) the pop that comes next returns P10, the payload pushed last,
\* while P2 .. P9, pushed before it, wait undelivered in sectors 2 .. 9.
C20_DeliveryNotChronological ==
    step = 13 =>
        /\ last.op = "pop" /\ last.result = FCTRSTAT_OK
        /\ last.payload = 10
        /\ last.sector = 1
        /\ \A k \in 2 .. 9 : /\ fctrStatusBytes[k] = FCTR_SECTOR_UNREAD
                              /\ flashData[k] = k
        /\ BagToSet(outstanding) = 2 .. 9

\* the pop after the compacting push has returned P10 before P2
C20_Witness ==
    /\ step = 13
    /\ last.op = "pop" /\ last.payload = 10
    /\ fctrStatusBytes[1] = FCTR_SECTOR_READ
    /\ fctrStatusBytes[2] = FCTR_SECTOR_UNREAD /\ flashData[2] = 2

(***************************************************************************)
(* C21: under SpecPowerLoss                                                *)
(***************************************************************************)
\* C21: after a power loss inside a push or a pop, the compaction's erase
\* and rewrite of the Map Sector included, fctr_firstInit finds the
\* signature, does not format, and every sector that was UNREAD before the
\* operation is UNREAD in the table it loads.
C21_TableSurvivesPowerLoss ==
    (interrupted.op # "none" /\ interrupted.table # <<>> /\ ready)
        => /\ last.op = "init"
           /\ last.rewrites = 0
           /\ fctrStatusBytes[0] = SIGNATURE_BYTE
           /\ \A i \in Usable :
                interrupted.table[i] = FCTR_SECTOR_UNREAD
                  => fctrStatusBytes[i] = FCTR_SECTOR_UNREAD

(***************************************************************************)
(* C22: under SpecFault                                                    *)
(***************************************************************************)
\* the entry of a payload that a successful push has stored: UNREAD in the
\* mirror and on the medium
HoldsUndelivered(i) ==
    /\ fctrStatusBytes[i] = FCTR_SECTOR_UNREAD
    /\ flashMap[i] = FCTR_SECTOR_UNREAD

\* C22: a push never takes a sector whose entry is UNREAD, and a sector
\* that holds an undelivered payload keeps its payload and stays UNREAD, in
\* the mirror and on the medium, through every push, pop and
\* initialisation that does not format, until a pop returns FCTRSTAT_OK
\* with that payload.
C22_UndeliveredKept ==
    /\ [][(last'.op = "push" /\ last'.sector \in Usable)
             => fctrStatusBytes[last'.sector] # FCTR_SECTOR_UNREAD]_vars
    /\ [][(last'.op \in {"push", "pop"})
             => \A i \in Usable :
                  HoldsUndelivered(i)
                    => \/ /\ fctrStatusBytes'[i] = FCTR_SECTOR_UNREAD
                          /\ flashMap'[i] = FCTR_SECTOR_UNREAD
                          /\ flashData'[i] = flashData[i]
                       \/ /\ last'.op = "pop"
                          /\ last'.result = FCTRSTAT_OK
                          /\ last'.sector = i
                          /\ last'.payload = flashData[i]]_vars
    /\ [][(last'.op = "init" /\ last'.result = FCTRSTAT_OK
                             /\ last'.rewrites = 0)
             => \A i \in Usable :
                  flashMap[i] = FCTR_SECTOR_UNREAD
                    => /\ fctrStatusBytes'[i] = FCTR_SECTOR_UNREAD
                       /\ flashMap'[i] = FCTR_SECTOR_UNREAD
                       /\ flashData'[i] = flashData[i]]_vars

(***************************************************************************)
(* C23: under SpecCrash                                                    *)
(***************************************************************************)
\* C23: whenever fctr_findSectorToWrite returns FCTRSTAT_OK its sector is
\* one of 1 .. N - 1, and when it has compacted, entry 0 of the table its
\* rescan reads is the signature 0x55; a push writes its payload into a
\* data sector and leaves byte 0 of the Map Sector the signature.
C23_AllocatorNeverReturnsZero ==
    /\ [](ready
            => LET f == fctr_findSectorToWrite(fctrStatusBytes, flashMap)
               IN  /\ f.result = FCTRSTAT_OK => f.sector \in Usable
                   /\ f.rewrites = 1
                        => /\ f.status[0] = SIGNATURE_BYTE
                           /\ f.status[0] # FCTR_SECTOR_EMPTY
                           /\ f.map[0] = SIGNATURE_BYTE)
    /\ [][(last'.op = "push")
             => /\ flashMap'[0] = SIGNATURE_BYTE
                /\ fctrStatusBytes'[0] = SIGNATURE_BYTE
                /\ (last'.result = FCTRSTAT_OK \/ last'.verifyFailed)
                     => /\ last'.sector \in Usable
                        /\ flashData'[last'.sector] = last'.payload]_vars

\* a push whose allocator compacted and rescanned from entry 0 has written
\* its payload into a data sector, the signature still in place
C23_Witness ==
    /\ last.op = "push" /\ last.result = FCTRSTAT_OK /\ last.rewrites = 1
    /\ last.sector \in Usable
    /\ flashData[last.sector] = last.payload
    /\ fctrStatusBytes[0] = SIGNATURE_BYTE
    /\ flashMap[0] = SIGNATURE_BYTE

=============================================================================
